---- MODULE Spec2Model ----
(***************************************************************************)
(* Speech-bubble layout engine of img_gen (src/overlay.py).                *)
(*                                                                         *)
(*   fit_font_size   -> FitSize      (pure)                                *)
(*   draw_bubble     -> DrawBubble   (pure geometry; the drawing calls     *)
(*                                    consume the geometry and add none)   *)
(*   overlay_bubbles -> Overlay      (the orchestrator, one action)        *)
(*   main            -> ParseArgs, CheckText, CheckPath, MainOverlay       *)
(*                                                                         *)
(* Four specifications share the variables pc, call and ret:               *)
(*   Spec      one call of overlay_bubbles, arguments drawn in Init;       *)
(*   SpecFit   fit_font_size applied to two texts under one budget;        *)
(*   SpecDraw  draw_bubble applied to one text, font and pixel anchor;     *)
(*   SpecMain  one run of the command-line entry point, step by step.      *)
(*                                                                         *)
(* Text is a sequence of glyphs.  The typeface (FONT_PATH, DejaVu Sans     *)
(* Bold) is proportional: the model keeps one narrow and one wide glyph,   *)
(* with advances of about 0.34 em and 1.10 em, and a line height of about  *)
(* 0.73 em for any non-empty text.                                         *)
(***************************************************************************)
EXTENDS Integers, Sequences, FiniteSets

VARIABLES pc, call, ret

vars == <<pc, call, ret>>

\* ---------------------------------------------------------------- constants
BUBBLE_PADDING == 20
TAIL_SIZE == 15
MARGIN == 25
DefaultMaxSize == 42
DefaultMinSize == 22

\* ------------------------------------------------------------------- bounds
\* longest text, in glyphs
MaxLen == 2
\* anchors are the fractions k / 2^FracBits, which a float holds exactly
FracBits == 1
\* pixel anchors of SpecDraw lie on a grid of this pitch
AnchorStep == 20

Glyphs == {"i", "W"}
Strings == UNION {[1..k -> Glyphs] : k \in 0..MaxLen}
NonEmptyStrings == {s \in Strings : Len(s) > 0}
CanvasWidths == {100, 240}
CanvasHeights == {60, 200}

Max(a, b) == IF a >= b THEN a ELSE b
Min(a, b) == IF a <= b THEN a ELSE b

\* ------------------------------------------------------------ font metrics
\* font.getbbox(text): bbox[2] - bbox[0] of one glyph at a pixel size
GlyphW(g, size) == IF g = "i" THEN (34 * size) \div 100 ELSE (110 * size) \div 100

RECURSIVE SumW(_, _, _)
SumW(text, size, k) ==
    IF k = 0 THEN 0 ELSE SumW(text, size, k - 1) + GlyphW(text[k], size)

\* text_w = bbox[2] - bbox[0]
TextW(text, size) == SumW(text, size, Len(text))

\* text_h = bbox[3] - bbox[1]; getbbox("") is (0, 0, 0, 0)
TextH(text, size) == IF Len(text) = 0 THEN 0 ELSE (73 * size) \div 100

\* ---------------------------------------------------------- fit_font_size
\* the test of the loop body: text_w + BUBBLE_PADDING * 2 <= max_width
Fits(text, size, max_width) == TextW(text, size) + BUBBLE_PADDING * 2 <= max_width

\* range(max_size, min_size - 1, -2)
Candidates(max_size, min_size) ==
    {s \in min_size..max_size : (max_size - s) % 2 = 0}

\* the loop from `size` downward, then the fallback get_font(min_size)
RECURSIVE FitFrom(_, _, _, _)
FitFrom(text, max_width, size, min_size) ==
    IF size < min_size THEN min_size
    ELSE IF Fits(text, size, max_width) THEN size
    ELSE FitFrom(text, max_width, size - 2, min_size)

\* mutant: the loop runs upward and returns the smallest size that fits
FitSmallest(text, max_width, max_size, min_size) ==
    LET F == {s \in Candidates(max_size, min_size) : Fits(text, s, max_width)}
    IN IF F = {} THEN min_size ELSE CHOOSE s \in F : \A t \in F : s <= t

\* mutant: on exhaustion the loop variable, one step below min_size, is used
FitFallbackBelow(text, max_width, max_size, min_size) ==
    LET r == FitFrom(text, max_width, max_size, min_size)
    IN IF \E s \in Candidates(max_size, min_size) : Fits(text, s, max_width)
       THEN r ELSE min_size - 2

\* mutant: on exhaustion the largest font is returned
FitFallbackMax(text, max_width, max_size, min_size) ==
    LET r == FitFrom(text, max_width, max_size, min_size)
    IN IF \E s \in Candidates(max_size, min_size) : Fits(text, s, max_width)
       THEN r ELSE max_size

FitSize(text, max_width, max_size, min_size) ==
    FitFrom(text, max_width, max_size, min_size)

\* ------------------------------------------------------------ draw_bubble
\* mutant: each edge is clamped on its own instead of the box being shifted
ClampHorizEdges(bx0, bx1, img_width) ==
    <<Max(bx0, MARGIN), Min(bx1, img_width - MARGIN)>>

\* "Clamp horizontally": the left test, then the right test on the shifted box
ClampHoriz(bx0, bx1, img_width) ==
    LET shiftL == IF bx0 < MARGIN THEN MARGIN - bx0 ELSE 0
        lx0 == bx0 + shiftL
        lx1 == bx1 + shiftL
        shiftR == IF lx1 > img_width - MARGIN THEN lx1 - (img_width - MARGIN) ELSE 0
    IN <<lx0 - shiftR, lx1 - shiftR>>

\* mutant: the top edge is not clamped
ClampVertNone(by0, by1) == <<by0, by1>>

\* "Clamp vertically - don't go above top margin"
ClampVert(by0, by1) ==
    LET shift == IF by0 < MARGIN THEN MARGIN - by0 ELSE 0
    IN <<by0 + shift, by1 + shift>>

\* mutant: the tail apex stays on the anchor
TailXAtAnchor(bx0, bx1, center_x) == center_x

\* tail_x = max(bx0 + 20, min(center_x, bx1 - 20))
TailX(bx0, bx1, center_x) == Max(bx0 + 20, Min(center_x, bx1 - 20))

DrawBubble(text, size, center_x, bottom_y, img_width, img_height) ==
    LET text_w == TextW(text, size)
        text_h == TextH(text, size)
        bw == text_w + BUBBLE_PADDING * 2
        bh == text_h + BUBBLE_PADDING * 2
        ix0 == center_x - bw \div 2
        iy0 == bottom_y - bh - TAIL_SIZE
        ix1 == ix0 + bw
        iy1 == iy0 + bh
        hx == ClampHoriz(ix0, ix1, img_width)
        vy == ClampVert(iy0, iy1)
        bx0 == hx[1]
        bx1 == hx[2]
        by0 == vy[1]
        by1 == vy[2]
        tail_x == TailX(bx0, bx1, center_x)
    IN [text |-> text, size |-> size, center_x |-> center_x, bottom_y |-> bottom_y,
        bw |-> bw, bh |-> bh,
        bx0 |-> bx0, by0 |-> by0, bx1 |-> bx1, by1 |-> by1,
        tail_x |-> tail_x, tail_y |-> by1 + TAIL_SIZE,
        tx |-> bx0 + BUBBLE_PADDING,
        returned |-> <<bx0, by0, bx1, by1 + TAIL_SIZE>>]

\* -------------------------------------------------------- overlay_bubbles
\* an optional str argument: None, or a str (possibly the empty one)
NoText == [present |-> FALSE, chars |-> <<>>]
Str(s) == [present |-> TRUE, chars |-> s]
OptTexts == {NoText} \cup {Str(s) : s \in Strings}

\* an optional (x_frac, y_frac) argument: None, or the pair (fx, fy) / FracDen
FracDen == 2 ^ FracBits
NoPos == [present |-> FALSE, fx |-> 0, fy |-> 0]
Pos(fx, fy) == [present |-> TRUE, fx |-> fx, fy |-> fy]
OptPositions == {NoPos} \cup {Pos(fx, fy) : fx \in 0..FracDen, fy \in 0..FracDen}

\* truth value of an optional str: None and "" are false
TextGiven(t) == t.present /\ Len(t.chars) > 0

\* truth value of an optional tuple: None is false, any pair is true
PosGiven(p) == p.present

\* mutant: the full-canvas budget in every mode
MaxBubbleWFull(left_text, right_text, w) == w - MARGIN * 2

\* max_bubble_w = w // 2 - MARGIN * 2 if (left_text and right_text) else w - MARGIN * 2
MaxBubbleW(left_text, right_text, w) ==
    IF TextGiven(left_text) /\ TextGiven(right_text)
    THEN w \div 2 - MARGIN * 2
    ELSE w - MARGIN * 2

\* int(pos[0] * w), int(pos[1] * h): the product is exact and not negative
Denorm(pos, w, h) == <<(pos.fx * w) \div FracDen, (pos.fy * h) \div FracDen>>

\* mutant: the two-bubble defaults in every mode
DefaultAnchorBoth(mode, side, w, h) ==
    IF side = "left" THEN <<w \div 4, h - MARGIN - 20>>
                     ELSE <<(3 * w) \div 4, h - MARGIN - 20>>

\* the else branches of the four anchor tests
DefaultAnchor(mode, side, w, h) ==
    IF mode = "both"
    THEN (IF side = "left" THEN <<w \div 4, h - MARGIN - 20>>
                           ELSE <<(3 * w) \div 4, h - MARGIN - 20>>)
    ELSE (IF side = "left" THEN <<w \div 3, h - MARGIN - 20>>
                           ELSE <<(2 * w) \div 3, h - MARGIN - 20>>)

\* if pos: denormalize, else: the default of the mode
ResolveAnchor(pos, mode, side, w, h) ==
    IF PosGiven(pos) THEN Denorm(pos, w, h) ELSE DefaultAnchor(mode, side, w, h)

\* which branch of the if / elif / elif chain runs
Mode(left_text, right_text) ==
    IF TextGiven(left_text) /\ TextGiven(right_text) THEN "both"
    ELSE IF TextGiven(left_text) THEN "left"
    ELSE IF TextGiven(right_text) THEN "right"
    ELSE "none"

\* one side of a branch: fit_font_size, the anchor, draw_bubble
Bubble(text, pos, mode, side, max_bubble_w, w, h) ==
    LET size == FitSize(text.chars, max_bubble_w, DefaultMaxSize, DefaultMinSize)
        a == ResolveAnchor(pos, mode, side, w, h)
    IN [side |-> side, geom |-> DrawBubble(text.chars, size, a[1], a[2], w, h)]

\* the draw_bubble calls of overlay_bubbles, in drawing order
Bubbles(left_text, right_text, pos_left, pos_right, w, h) ==
    LET mode == Mode(left_text, right_text)
        max_bubble_w == MaxBubbleW(left_text, right_text, w)
    IN CASE mode = "both" ->
              <<Bubble(left_text, pos_left, mode, "left", max_bubble_w, w, h),
                Bubble(right_text, pos_right, mode, "right", max_bubble_w, w, h)>>
         [] mode = "left" ->
              <<Bubble(left_text, pos_left, mode, "left", max_bubble_w, w, h)>>
         [] mode = "right" ->
              <<Bubble(right_text, pos_right, mode, "right", max_bubble_w, w, h)>>
         [] OTHER -> <<>>

OverlayCalls ==
    [left_text : OptTexts, right_text : OptTexts,
     pos_left : OptPositions, pos_right : OptPositions,
     w : CanvasWidths, h : CanvasHeights]

NoRet == [saved |-> FALSE]

\* overlay_bubbles: the whole call, through result.save(output_path) and the return
Overlay ==
    /\ pc = "call"
    /\ ret' = [max_bubble_w |-> MaxBubbleW(call.left_text, call.right_text, call.w),
               bubbles |-> Bubbles(call.left_text, call.right_text,
                                   call.pos_left, call.pos_right, call.w, call.h),
               saved |-> TRUE,
               raised |-> FALSE]
    /\ pc' = "done"
    /\ UNCHANGED call

Init ==
    /\ pc = "call"
    /\ call \in OverlayCalls
    /\ ret = NoRet

Next == Overlay

Spec == Init /\ [][Next]_vars

\* ------------------------------------------ fit_font_size as a pure function
FitWidths == {1, 47, 50, 64, 70, 88, 120, 190}
FitMaxSizes == {22, 30, 42}
FitMinSizes == {21, 22}

FitCalls ==
    [text_a : NonEmptyStrings, text_b : NonEmptyStrings, max_width : FitWidths,
     max_size : FitMaxSizes, min_size : FitMinSizes]

\* fit_font_size on text_a and on text_b, the other arguments identical
Fit ==
    /\ pc = "call"
    /\ ret' = [size_a |-> FitSize(call.text_a, call.max_width, call.max_size, call.min_size),
               size_b |-> FitSize(call.text_b, call.max_width, call.max_size, call.min_size)]
    /\ pc' = "done"
    /\ UNCHANGED call

InitFit ==
    /\ pc = "call"
    /\ call \in FitCalls
    /\ ret = NoRet

NextFit == Fit

SpecFit == InitFit /\ [][NextFit]_vars

\* -------------------------------------------- draw_bubble as a pure function
DrawHeights == CanvasHeights \cup {100}
GridTo(n) == {k * AnchorStep : k \in 0..(n \div AnchorStep)} \cup {n}

DrawCalls ==
    {c \in [text : NonEmptyStrings, size : Candidates(DefaultMaxSize, DefaultMinSize),
            center_x : GridTo(240), bottom_y : GridTo(200),
            img_width : CanvasWidths, img_height : DrawHeights] :
        c.center_x <= c.img_width /\ c.bottom_y <= c.img_height}

\* draw_bubble on a pixel anchor inside the canvas
Draw ==
    /\ pc = "call"
    /\ ret' = DrawBubble(call.text, call.size, call.center_x, call.bottom_y,
                         call.img_width, call.img_height)
    /\ pc' = "done"
    /\ UNCHANGED call

InitDraw ==
    /\ pc = "call"
    /\ call \in DrawCalls
    /\ ret = NoRet

NextDraw == Draw

SpecDraw == InitDraw /\ [][NextDraw]_vars

\* ------------------------------------------------------------------ main
\* the command line: whether argparse accepts it, --left and --right (None when
\* the flag is absent), what the input path names, and the image's size
InputKinds == {"missing", "image", "not_image"}

MainCalls ==
    [argv_ok : BOOLEAN, left : OptTexts, right : OptTexts, input : InputKinds,
     w : CanvasWidths, h : CanvasHeights]

\* no exit status yet, no check evaluated, overlay_bubbles not invoked, nothing written
MainStart ==
    [exit_code |-> -1, checks |-> <<>>, overlay_calls |-> 0, saved |-> FALSE,
     bubbles |-> <<>>]

\* mutant: the text test rejects unless both texts are given
MissingTextEither(left, right) == ~TextGiven(left) \/ ~TextGiven(right)

\* if not args.left and not args.right
MissingText(left, right) == ~TextGiven(left) /\ ~TextGiven(right)

\* args = parser.parse_args(): argparse exits with status 2 on a usage error
ParseArgs ==
    /\ pc = "parse"
    /\ IF call.argv_ok
       THEN pc' = "check_text" /\ ret' = ret
       ELSE pc' = "exit" /\ ret' = [ret EXCEPT !.exit_code = 2]
    /\ UNCHANGED call

\* the text test: print the error and sys.exit(1), or go on
CheckText ==
    /\ pc = "check_text"
    /\ IF MissingText(call.left, call.right)
       THEN /\ pc' = "exit"
            /\ ret' = [ret EXCEPT !.checks = Append(@, "text"), !.exit_code = 1]
       ELSE /\ pc' = "check_path"
            /\ ret' = [ret EXCEPT !.checks = Append(@, "text")]
    /\ UNCHANGED call

\* if not input_path.exists(): print the error and sys.exit(1), or go on
CheckPath ==
    /\ pc = "check_path"
    /\ IF call.input = "missing"
       THEN /\ pc' = "exit"
            /\ ret' = [ret EXCEPT !.checks = Append(@, "path"), !.exit_code = 1]
       ELSE /\ pc' = "overlay"
            /\ ret' = [ret EXCEPT !.checks = Append(@, "path")]
    /\ UNCHANGED call

\* out = overlay_bubbles(input_path, Path(args.output), args.left, args.right),
\* the print and the return; Image.open raises on a file that is no image and
\* the uncaught exception ends the process with status 1
MainOverlay ==
    /\ pc = "overlay"
    /\ IF call.input = "image"
       THEN ret' = [ret EXCEPT !.overlay_calls = @ + 1,
                               !.bubbles = Bubbles(call.left, call.right, NoPos, NoPos,
                                                   call.w, call.h),
                               !.saved = TRUE,
                               !.exit_code = 0]
       ELSE ret' = [ret EXCEPT !.overlay_calls = @ + 1, !.exit_code = 1]
    /\ pc' = "exit"
    /\ UNCHANGED call

InitMain ==
    /\ pc = "parse"
    /\ call \in MainCalls
    /\ ret = MainStart

NextMain == ParseArgs \/ CheckText \/ CheckPath \/ MainOverlay

SpecMain == InitMain /\ [][NextMain]_vars

\* ================================================================= claims
\* the sizes fit_font_size tries by default, and those of them that fit a budget
DefaultCandidates == Candidates(DefaultMaxSize, DefaultMinSize)
FittingSizes(text, max_width, max_size, min_size) ==
    {s \in Candidates(max_size, min_size) : TextW(text, s) + 2 * BUBBLE_PADDING <= max_width}
Largest(S) == CHOOSE s \in S : \A t \in S : t <= s
ExpectedSize(text, max_width) ==
    LET F == FittingSizes(text, max_width, DefaultMaxSize, DefaultMinSize)
    IN IF F = {} THEN DefaultMinSize ELSE Largest(F)
CallMode == Mode(call.left_text, call.right_text)

\* C1 - margin containment: on a canvas of at least 100 x 100 the box drawn for
\* an anchor pixel inside the canvas has y0 >= MARGIN, and when the body width
\* is at most canvas_w - 2*MARGIN also x0 >= MARGIN and x1 <= canvas_w - MARGIN.
C1_MarginContainment ==
    (pc = "done" /\ call.img_width >= 100 /\ call.img_height >= 100) =>
        /\ ret.by0 >= MARGIN
        /\ (ret.bw <= call.img_width - 2 * MARGIN =>
                ret.bx0 >= MARGIN /\ ret.bx1 <= call.img_width - MARGIN)

\* C1 witness: both the left clamp and the top clamp acted on a fitting body
C1_Witness ==
    /\ pc = "done" /\ call.img_width >= 100 /\ call.img_height >= 100
    /\ ret.bw <= call.img_width - 2 * MARGIN
    /\ call.center_x - ret.bw \div 2 < MARGIN
    /\ call.bottom_y - ret.bh - TAIL_SIZE < MARGIN
    /\ ret.bx0 = MARGIN /\ ret.by0 = MARGIN

\* C2 - full canvas containment, as claimed: whenever the body width fits the
\* margin-adjusted canvas width the box lies within [0,w] x [0,h], on every
\* canvas and for every anchor in it.
C2_FullContainment ==
    (pc = "done" /\ ret.bw <= call.img_width - 2 * MARGIN) =>
        /\ 0 <= ret.bx0 /\ ret.bx1 <= call.img_width
        /\ 0 <= ret.by0 /\ ret.by1 <= call.img_height

\* C3 - over-wide box, as claimed: when the body width exceeds
\* canvas_w - 2*MARGIN the final left edge x0 equals MARGIN.
C3_OverWidePinnedLeft ==
    (pc = "done" /\ ret.bw > call.img_width - 2 * MARGIN) => ret.bx0 = MARGIN

\* C4 - largest fitting size: the size returned lies in [min_size, max_size],
\* no larger candidate fits, and when some candidate fits the size returned is
\* a candidate that fits.
C4_LargestFittingSize ==
    pc = "done" =>
        LET F == FittingSizes(call.text_a, call.max_width, call.max_size, call.min_size)
        IN /\ ret.size_a \in call.min_size..call.max_size
           /\ \A s \in F : s <= ret.size_a
           /\ (F # {} => ret.size_a \in F)

\* C4 witness: the largest size does not fit, a size strictly between does
C4_Witness ==
    /\ pc = "done"
    /\ ret.size_a < call.max_size /\ ret.size_a > call.min_size + 1
    /\ TextW(call.text_a, ret.size_a) + 2 * BUBBLE_PADDING <= call.max_width
    /\ TextW(call.text_a, ret.size_a + 2) + 2 * BUBBLE_PADDING > call.max_width

\* a bubble of the finished call whose text fits the budget at no candidate size
Degenerate(b) ==
    FittingSizes(b.geom.text, ret.max_bubble_w, DefaultMaxSize, DefaultMinSize) = {}

\* C5 - degenerate fit is not an error: when no candidate size fits the budget
\* the bubble is laid out at exactly min_size, its body (text width at min_size
\* + 2*PADDING) is wider than the budget, and the call completes and saves.
C5_DegenerateFitNotAnError ==
    pc = "done" =>
        \A i \in 1..Len(ret.bubbles) :
            Degenerate(ret.bubbles[i]) =>
                LET g == ret.bubbles[i].geom
                IN /\ g.size = DefaultMinSize
                   /\ g.bw = TextW(g.text, DefaultMinSize) + 2 * BUBBLE_PADDING
                   /\ g.bx1 - g.bx0 = g.bw
                   /\ g.bw > ret.max_bubble_w
                   /\ ret.saved /\ ~ret.raised

\* C5 witness: a single bubble too wide for the full-canvas budget at size 22
C5_Witness ==
    /\ pc = "done" /\ CallMode = "left"
    /\ Degenerate(ret.bubbles[1])
    /\ ret.bubbles[1].geom.bw > call.w - 2 * MARGIN
    /\ ret.saved

\* C6 - configuration error, as claimed: with neither text supplied the call
\* does not complete by saving an output image.
C6_NoTextRejected ==
    (pc = "done" /\ CallMode = "none") => ~ret.saved

\* C7 - width budget by mode: w div 2 - 2*MARGIN with both texts, w - 2*MARGIN
\* with one, and every bubble is sized as its own text under that budget
\* whatever the other text and the anchors are.
C7_BudgetByMode ==
    (pc = "done" /\ CallMode # "none") =>
        LET budget == IF CallMode = "both" THEN call.w \div 2 - 2 * MARGIN
                                           ELSE call.w - 2 * MARGIN
        IN /\ ret.max_bubble_w = budget
           /\ Len(ret.bubbles) = (IF CallMode = "both" THEN 2 ELSE 1)
           /\ \A i \in 1..Len(ret.bubbles) :
                LET b == ret.bubbles[i]
                    text == IF b.side = "left" THEN call.left_text.chars
                                               ELSE call.right_text.chars
                IN b.geom.text = text /\ b.geom.size = ExpectedSize(text, budget)

\* C7 witness: two bubbles, the right one smaller than the full-canvas budget
\* would make it, the left one at the largest size
C7_Witness ==
    /\ pc = "done" /\ CallMode = "both"
    /\ ret.bubbles[1].geom.size = DefaultMaxSize
    /\ ret.bubbles[2].geom.size < ExpectedSize(call.right_text.chars, call.w - 2 * MARGIN)
    /\ ret.bubbles[2].geom.size > DefaultMinSize

\* C8 - tail apex containment: the apex x lies in [x0+20, x1-20] of the final
\* box when the box is at least 40 wide, hence in [x0, x1], and the apex y is
\* TAIL_SIZE below the final bottom edge.
C8_TailApexContained ==
    pc = "done" =>
        /\ (ret.bx1 - ret.bx0 >= 40 =>
                ret.bx0 + 20 <= ret.tail_x /\ ret.tail_x <= ret.bx1 - 20)
        /\ ret.bx0 <= ret.tail_x /\ ret.tail_x <= ret.bx1
        /\ ret.tail_y = ret.by1 + TAIL_SIZE
        /\ ret.returned[4] = ret.tail_y

\* C8 witness: the anchor x lies outside the clamped box
C8_Witness ==
    /\ pc = "done"
    /\ call.center_x > ret.bx1
    /\ ret.tail_x = ret.bx1 - 20
    /\ ret.bx1 - ret.bx0 > 40

\* C9 - monotonic fit, as claimed: a text with more characters never gets a
\* strictly larger font under the same budget and size range.
C9_MonotonicByLength ==
    (pc = "done" /\ Len(call.text_a) < Len(call.text_b)) => ret.size_b <= ret.size_a

\* text_b measures at least as wide as text_a at every candidate size
NoNarrower(text_a, text_b, max_size, min_size) ==
    \A s \in Candidates(max_size, min_size) : TextW(text_a, s) <= TextW(text_b, s)

\* C9 amended - monotonic fit by measured width: a text that measures at least
\* as wide at every candidate size never gets a strictly larger font.
C9_MonotonicByWidth ==
    (pc = "done" /\ NoNarrower(call.text_a, call.text_b, call.max_size, call.min_size))
        => ret.size_b <= ret.size_a

\* C9 witness: the longer, wider text gets a strictly smaller font
C9_Witness ==
    /\ pc = "done"
    /\ Len(call.text_a) < Len(call.text_b)
    /\ NoNarrower(call.text_a, call.text_b, call.max_size, call.min_size)
    /\ ret.size_b < ret.size_a

\* the anchor a side must get: the denormalized fractions when supplied, else
\* the default of the mode
ExpectedAnchor(side) ==
    LET pos == IF side = "left" THEN call.pos_left ELSE call.pos_right
        bottom == call.h - MARGIN - 20
    IN IF pos.present
       THEN <<(pos.fx * call.w) \div FracDen, (pos.fy * call.h) \div FracDen>>
       ELSE CASE CallMode = "both" /\ side = "left" -> <<call.w \div 4, bottom>>
              [] CallMode = "both" /\ side = "right" -> <<(3 * call.w) \div 4, bottom>>
              [] CallMode = "left" -> <<call.w \div 3, bottom>>
              [] CallMode = "right" -> <<(2 * call.w) \div 3, bottom>>

\* C10 - anchor resolution by mode: each bubble drawn is anchored at the
\* default of its mode when its side's anchor is absent and at the truncated
\* denormalized fractions when supplied; only present sides are drawn, so an
\* anchor supplied for an absent side reaches no bubble.
C10_AnchorResolution ==
    pc = "done" =>
        /\ [i \in 1..Len(ret.bubbles) |-> ret.bubbles[i].side] =
              (CASE CallMode = "both" -> <<"left", "right">>
                 [] CallMode = "left" -> <<"left">>
                 [] CallMode = "right" -> <<"right">>
                 [] OTHER -> <<>>)
        /\ \A i \in 1..Len(ret.bubbles) :
              LET b == ret.bubbles[i]
              IN <<b.geom.center_x, b.geom.bottom_y>> = ExpectedAnchor(b.side)

\* C10 witness: right-only mode with no right anchor and a left anchor
\* supplied for the absent left side
C10_Witness ==
    /\ pc = "done" /\ CallMode = "right"
    /\ ~call.pos_right.present /\ call.pos_left.present
    /\ Len(ret.bubbles) = 1
    /\ ret.bubbles[1].geom.center_x = (2 * call.w) \div 3
    /\ ret.bubbles[1].geom.bottom_y = call.h - MARGIN - 20

\* the body size and the unclamped placement of the call of SpecDraw
BodyW == TextW(call.text, call.size) + 2 * BUBBLE_PADDING
BodyH == TextH(call.text, call.size) + 2 * BUBBLE_PADDING
LeftClampFires == call.center_x - BodyW \div 2 < MARGIN
RightClampFires ==
    Max(call.center_x - BodyW \div 2, MARGIN) + BodyW > call.img_width - MARGIN
TopClampFires == call.bottom_y - BodyH - TAIL_SIZE < MARGIN

\* C12 - unclamped placement points the tail at the anchor: when no clamp fires
\* the box is x0 = anchor_x - body_w div 2, x1 = x0 + body_w,
\* y1 = anchor_y - TAIL_SIZE, y0 = y1 - body_h and the tail apex is the anchor
\* pixel; clamped or not the box keeps its size; and when the top clamp fires
\* the apex y is strictly greater than anchor_y.
C12_UnclampedPointsAtAnchor ==
    pc = "done" =>
        /\ ((~LeftClampFires /\ ~RightClampFires /\ ~TopClampFires) =>
                /\ ret.bx0 = call.center_x - BodyW \div 2
                /\ ret.bx1 = ret.bx0 + BodyW
                /\ ret.by1 = call.bottom_y - TAIL_SIZE
                /\ ret.by0 = ret.by1 - BodyH
                /\ <<ret.tail_x, ret.tail_y>> = <<call.center_x, call.bottom_y>>)
        /\ ret.bx1 - ret.bx0 = BodyW
        /\ ret.by1 - ret.by0 = BodyH
        /\ (TopClampFires => ret.tail_y > call.bottom_y)

\* C12 witness: an unclamped bubble whose apex is the anchor
C12_Witness ==
    /\ pc = "done"
    /\ ~LeftClampFires /\ ~RightClampFires /\ ~TopClampFires
    /\ ret.tail_x = call.center_x /\ ret.tail_y = call.bottom_y
    /\ ret.bx0 > MARGIN /\ ret.bx1 < call.img_width - MARGIN /\ ret.by0 > MARGIN

\* the two rejections of the command line, stated on the arguments
NeitherTextGiven ==
    (~call.left.present \/ call.left.chars = <<>>)
        /\ (~call.right.present \/ call.right.chars = <<>>)
InputMissing == call.input = "missing"

\* C11 - CLI rejection ordering: the text check is evaluated before the path
\* check, each at most once; a run with neither text or with a missing input
\* exits non-zero without invoking overlay_bubbles or writing the output, and
\* with neither text the path is never consulted; overlay_bubbles is invoked
\* at most once, and once exactly when both checks have passed.
C11_CliRejectionOrdering ==
    /\ ret.checks \in {<<>>, <<"text">>, <<"text", "path">>}
    /\ ret.overlay_calls \in {0, 1}
    /\ (ret.overlay_calls = 1 =>
            ret.checks = <<"text", "path">> /\ ~NeitherTextGiven /\ ~InputMissing)
    /\ (ret.saved => ret.overlay_calls = 1)
    /\ (pc = "exit" /\ call.argv_ok) =>
            /\ ((NeitherTextGiven \/ InputMissing) =>
                    ret.exit_code # 0 /\ ret.overlay_calls = 0 /\ ~ret.saved)
            /\ (NeitherTextGiven => ret.checks = <<"text">>)
            /\ ((~NeitherTextGiven /\ InputMissing) => ret.checks = <<"text", "path">>)
            /\ ((~NeitherTextGiven /\ ~InputMissing) => ret.overlay_calls = 1)

\* C11 witness: neither text and a missing input: rejected by the text check
\* alone, with status 1
C11_Witness ==
    /\ pc = "exit" /\ call.argv_ok
    /\ NeitherTextGiven /\ InputMissing
    /\ ret.checks = <<"text">> /\ ret.exit_code = 1
    /\ ret.overlay_calls = 0 /\ ~ret.saved

====
